---- MODULE Spec2Model ----
(***************************************************************************)
(* Model of cargo-protologic (src/src/main.rs): the Build command (cargo   *)
(* per package, scan of the cargo output directory, wasm-opt per entry),   *)
(* the Run command (listing of the fleet directory, simulator, player) and *)
(* the fleet-name extraction.  Paths are sequences of one-character        *)
(* strings, so that std::path's parsing is modelled byte by byte.          *)
(***************************************************************************)
EXTENDS Integers, Sequences, FiniteSets, TLC

VARIABLES
    cmd,            \* which command this invocation runs: "build", "run", "name"
    pc,             \* position of the control thread inside main
    outcome,        \* "none" while running, then how main returned
    debug,          \* the --debug flag
    \* ---- Build ----
    packageArg,     \* Option<Vec<String>> of -p flags
    packages,       \* the package list the loop iterates over
    idx,            \* index of the package being built (1-based)
    running,        \* processes / optimizer runs currently executing
    cargoLog,       \* one record per spawned `cargo rustc`, in spawn order
    targetDir,      \* cargo output directory: [exists, entries (listing order)]
    wasm_output,    \* the filtered listing collected by main
    scanned,        \* TRUE once read_dir of the cargo output directory succeeded
    optIdx,         \* index into wasm_output of the entry being optimized
    optLog,         \* one record per wasm-opt invocation, in order
    fleetFiles,     \* files of ./target/protologic_fleets written so far
    \* ---- Run ----
    fleets,         \* listing of ./target/protologic_fleets (names, in order)
    player,         \* the --player flag
    now,            \* unix seconds at battle_output_path
    cwd,            \* std::env::current_dir()
    battle_output,  \* Option<PathBuf> computed by battle_output_path
    simLog,         \* one record per spawned simulator
    playerLog,      \* one record per spawned player
    \* ---- extract_fleet_name on its own ----
    path,           \* the input path
    nameResult      \* Result<String>

vars == <<cmd, pc, outcome, debug, packageArg, packages, idx, running, cargoLog,
          targetDir, wasm_output, scanned, optIdx, optLog, fleetFiles,
          fleets, player, now, cwd, battle_output, simLog, playerLog,
          path, nameResult>>

buildVars == <<packageArg, packages, idx, running, cargoLog, targetDir,
               wasm_output, scanned, optIdx, optLog, fleetFiles>>
runVars == <<fleets, player, now, cwd, battle_output, simLog, playerLog>>
nameVars == <<path, nameResult>>

----------------------------------------------------------------------------
(* Bounds of the model *)
MaxPathLen == 4     \* longest path given to extract_fleet_name on its own
MaxPackages == 2    \* longest package list
MaxFleets == 3      \* most entries in the fleet-output directory

----------------------------------------------------------------------------
(* Option / Result values *)
Some(v) == [some |-> TRUE, val |-> v]
NoneV == [some |-> FALSE, val |-> <<>>]
Ok(v) == [ok |-> TRUE, val |-> v, why |-> ""]
Err(why) == [ok |-> FALSE, val |-> <<>>, why |-> why]

MaxOf(S) == CHOOSE x \in S : \A y \in S : y <= x

SeqsUpTo(S, n) == UNION {[1..k -> S] : k \in 0..n}

----------------------------------------------------------------------------
(* std::path as used by main.rs.  A path is a sequence of characters; "/"  *)
(* separates components.                                                   *)

(* Path::components().next_back(): the range of the last Normal component, *)
(* skipping trailing separators and non-leading "." components; none when  *)
(* the last component is "..", a leading "." or the root.                  *)
RECURSIVE LastComponent(_, _)
LastComponent(p, e) ==
    IF e = 0 THEN [some |-> FALSE, start |-> 0, end |-> 0]
    ELSE IF p[e] = "/" THEN LastComponent(p, e - 1)
    ELSE LET seps == {i \in 1..e : p[i] = "/"}
             s == IF seps = {} THEN 1 ELSE MaxOf(seps) + 1
             comp == SubSeq(p, s, e)
         IN  IF comp = <<".">>
             THEN IF s = 1 THEN [some |-> FALSE, start |-> 0, end |-> 0]
                  ELSE LastComponent(p, s - 1)
             ELSE IF comp = <<".", ".">>
             THEN [some |-> FALSE, start |-> 0, end |-> 0]
             ELSE [some |-> TRUE, start |-> s, end |-> e]

(* Path::file_name() *)
FileName(p) ==
    LET c == LastComponent(p, Len(p))
    IN  IF c.some THEN Some(SubSeq(p, c.start, c.end)) ELSE NoneV

(* std::path::rsplit_file_at_dot: (before, after) of the last "." *)
RsplitFileAtDot(file) ==
    IF file = <<".", ".">> THEN [before |-> Some(file), after |-> NoneV]
    ELSE LET dots == {i \in 1..Len(file) : file[i] = "."}
         IN  IF dots = {} THEN [before |-> NoneV, after |-> Some(file)]
             ELSE LET k == MaxOf(dots)
                      b == SubSeq(file, 1, k - 1)
                      a == SubSeq(file, k + 1, Len(file))
                  IN  IF b = <<>> THEN [before |-> Some(file), after |-> NoneV]
                      ELSE [before |-> Some(b), after |-> Some(a)]

(* Path::file_stem(): before.or(after) *)
FileStemOf(file) ==
    LET r == RsplitFileAtDot(file)
    IN  IF r.before.some THEN r.before.val ELSE r.after.val

(* Path::extension(): before.and(after) *)
Extension(p) ==
    LET f == FileName(p)
    IN  IF ~f.some THEN NoneV
        ELSE LET r == RsplitFileAtDot(f.val)
             IN  IF r.before.some THEN r.after ELSE NoneV

(* PathBuf::set_extension: truncate right after the file stem, then append *)
(* "." and the new extension when it is not empty; no change when the path *)
(* has no file name.                                                       *)
SetExtension(p, ext) ==
    LET c == LastComponent(p, Len(p))
    IN  IF ~c.some THEN p
        ELSE LET stem == FileStemOf(SubSeq(p, c.start, c.end))
                 truncated == SubSeq(p, 1, c.start + Len(stem) - 1)
             IN  IF ext = <<>> THEN truncated ELSE truncated \o <<".">> \o ext

(* Path::with_extension: copy the path without the bytes of its previous   *)
(* extension, then set_extension on the copy (the std implementation of    *)
(* the toolchains that have slice::first_chunk, which main uses).          *)
WithExtension(p, ext) ==
    LET prev == Extension(p)
        slice == IF prev.some THEN SubSeq(p, 1, Len(p) - Len(prev.val)) ELSE p
    IN  SetExtension(slice, ext)

(* PathBuf::join of a relative, non-empty path `name` *)
Join(base, name) ==
    IF base = <<>> \/ base[Len(base)] = "/" THEN base \o name
    ELSE base \o <<"/">> \o name

(* extract_fleet_name: with_extension(""), file_name(), to_str() *)
ExtractFleetName(fleet_path) ==
    LET f == FileName(WithExtension(fleet_path, <<>>))
    IN  IF f.some THEN Ok(f.val) ELSE Err("no file name")

----------------------------------------------------------------------------
(* extract_fleet_name applied to an arbitrary path *)
Chars == {".", "/", "a", "b"}
Paths == SeqsUpTo(Chars, MaxPathLen)

IdleBuild ==
    /\ packageArg = NoneV /\ packages = <<>> /\ idx = 0 /\ running = {}
    /\ cargoLog = <<>> /\ targetDir = [exists |-> FALSE, entries |-> <<>>]
    /\ wasm_output = <<>> /\ scanned = FALSE /\ optIdx = 0 /\ optLog = <<>>
    /\ fleetFiles = {}
IdleRun ==
    /\ fleets = <<>> /\ player = FALSE /\ now = 0 /\ cwd = <<>>
    /\ battle_output = NoneV /\ simLog = <<>> /\ playerLog = <<>>
IdleName == path = <<>> /\ nameResult = Err("not called")

InitName ==
    /\ cmd = "name" /\ pc = "call" /\ outcome = "none" /\ debug = FALSE
    /\ IdleBuild /\ IdleRun
    /\ path \in Paths
    /\ nameResult = Err("not called")

CallExtractFleetName ==
    /\ cmd = "name" /\ pc = "call"
    /\ nameResult' = ExtractFleetName(path)
    /\ pc' = "done"
    /\ outcome' = IF ExtractFleetName(path).ok THEN "ok" ELSE "err"
    /\ UNCHANGED <<cmd, debug, path>>
    /\ UNCHANGED buildVars /\ UNCHANGED runVars

NextName == CallExtractFleetName
SpecName == InitName /\ [][NextName]_vars

(* The file name of `path` split at its last "." into a non-empty stem and *)
(* a non-empty extension.                                                  *)
HasStemDotExt(file) ==
    \E k \in 2..(Len(file) - 1) :
        /\ file[k] = "."
        /\ \A i \in (k + 1)..Len(file) : file[i] # "."
StemBeforeLastDot(file) ==
    LET k == MaxOf({i \in 1..Len(file) : file[i] = "."})
    IN  SubSeq(file, 1, k - 1)

(* C7: for every path whose file name is stem.ext extract_fleet_name       *)
(* returns stem exactly; for a file name without any extension it returns  *)
(* the whole file name; for a path without a file name it returns an error.*)
C7_ExtractFleetNameReturnsStem ==
    (cmd = "name" /\ pc = "done") =>
        LET f == FileName(path)
        IN  /\ (f.some /\ HasStemDotExt(f.val)) =>
                  nameResult = Ok(StemBeforeLastDot(f.val))
            /\ (f.some /\ \A i \in 1..Len(f.val) : f.val[i] # ".") =>
                  nameResult = Ok(f.val)
            /\ ~f.some => ~nameResult.ok

----------------------------------------------------------------------------
(* The Build command *)

WASI_TARGET == <<"w","a","s","m","3","2","-","w","a","s","i">>
WasmExt == <<"w","a","s","m">>

(* Inputs: package names, what an earlier build may have left in the cargo *)
(* output directory (in listing order), and how a child may exit.          *)
PackageNames == {<<"a">>, <<"b">>}
StaleEntries ==
    << [name |-> <<"d","e","p","s">>, kind |-> "dir"],
       [name |-> <<"x",".","w","a","s","m">>, kind |-> "dir"],
       [name |-> <<"a",".","d">>, kind |-> "file"],
       [name |-> <<"n","o","t","e">>, kind |-> "file"] >>
ExitCodes == {0, 101}

RECURSIVE SubSeqsOf(_)
SubSeqsOf(s) ==
    IF s = <<>> THEN {<<>>}
    ELSE LET rest == SubSeqsOf(Tail(s))
         IN  rest \cup {<<Head(s)>> \o r : r \in rest}

(* metadata.target_directory as cargo reports it *)
TargetDirectory == <<"/","w","/","t","a","r","g","e","t">>

(* cargo_output_base_path: target_directory.join("./{WASI_TARGET}/{profile}/") *)
CargoOutputBasePath(d) ==
    LET profile == IF d THEN <<"d","e","b","u","g">>
                   ELSE <<"r","e","l","e","a","s","e">>
    IN  Join(TargetDirectory, <<".","/">> \o WASI_TARGET \o <<"/">> \o profile \o <<"/">>)

(* fleet_output_base_path *)
FleetOutputBasePath ==
    <<".","/","t","a","r","g","e","t","/",
      "p","r","o","t","o","l","o","g","i","c","_","f","l","e","e","t","s","/">>

(* wasm_opt_output_path *)
WasmOptOutputPath(input_file_name) == Join(FleetOutputBasePath, input_file_name)

(* DirEntry::path() of an entry of the cargo output directory *)
EntryPath(d, entry) == Join(CargoOutputBasePath(d), entry.name)

(* the is_wasm_output closure: the extension of the entry's path is "wasm" *)
IsWasmOutput(d, entry) ==
    LET ext == Extension(EntryPath(d, entry))
    IN  ext.some /\ ext.val = WasmExt

(* build(): the argument list handed to cargo *)
BuildArgs(package, d) ==
    <<"rustc", "-p", package, "--crate-type", "cdylib", "--target", WASI_TARGET>>
        \o (IF d THEN <<>> ELSE <<"--release">>)

(* make_wasm_opt with the cooperative-yield pass left out of release runs *)
MakeWasmOptNoAsyncify(d) ==
    [ optimize_level |-> IF d THEN 0 ELSE 4,
      shrink_level |-> 0,
      debug_info |-> d,
      features |-> {"BulkMemory", "Simd"},
      passes |-> IF d THEN <<"Asyncify">> ELSE <<"StripDwarf">>,
      pass_args |-> IF d THEN {<<"asyncify-imports", "wasi_snapshot_preview1.sched_yield">>}
                    ELSE {} ]

(* make_wasm_opt *)
MakeWasmOpt(d) ==
    LET base == [ optimize_level |-> IF d THEN 0 ELSE 4,
                  shrink_level |-> 0,
                  debug_info |-> FALSE,
                  features |-> {},
                  passes |-> <<>>,
                  pass_args |-> {} ]
        prof == IF d THEN [base EXCEPT !.debug_info = TRUE]
                ELSE [base EXCEPT !.passes = Append(@, "StripDwarf")]
        feat == [prof EXCEPT !.features = @ \cup {"BulkMemory", "Simd"}]
    IN  [feat EXCEPT !.passes = Append(@, "Asyncify"),
                     !.pass_args = @ \cup {<<"asyncify-imports",
                                             "wasi_snapshot_preview1.sched_yield">>}]

(* Child::wait that returns without reaping the child *)
WaitChildNoBlock(procs, id) == procs

(* Child::wait: blocks until the child has exited *)
WaitChild(procs, id) == procs \ {id}

InitBuild ==
    /\ cmd = "build" /\ pc = "resolve" /\ outcome = "none"
    /\ debug \in BOOLEAN
    /\ packageArg \in {NoneV} \cup
          {Some(ps) : ps \in SeqsUpTo(PackageNames, MaxPackages) \ {<<>>}}
    /\ packages = <<>> /\ idx = 0 /\ running = {} /\ cargoLog = <<>>
    /\ targetDir \in {[exists |-> FALSE, entries |-> <<>>]} \cup
          {[exists |-> TRUE, entries |-> es] : es \in SubSeqsOf(StaleEntries)}
    /\ wasm_output = <<>> /\ scanned = FALSE /\ optIdx = 0 /\ optLog = <<>>
    /\ fleetFiles \in SUBSET {[name |-> <<"a",".","w","a","s","m">>,
                               content |-> "complete", run |-> 0]}
    /\ IdleRun /\ IdleName

Fail(why) == pc' = "done" /\ outcome' = why

(* package.map_or_else(list_workspace_fleets, Result::Ok)? *)
ResolvePackages ==
    /\ cmd = "build" /\ pc = "resolve"
    /\ IF packageArg.some
       THEN /\ packages' = packageArg.val
            /\ pc' = "loop" /\ idx' = 1 /\ UNCHANGED outcome
       ELSE \E metadata \in {Err("cargo metadata")} \cup
                            {Ok(ms) : ms \in SeqsUpTo(PackageNames, MaxPackages)} :
               IF metadata.ok
               THEN /\ packages' = metadata.val
                    /\ pc' = "loop" /\ idx' = 1 /\ UNCHANGED outcome
               ELSE /\ Fail("err_metadata") /\ UNCHANGED <<packages, idx>>
    /\ UNCHANGED <<cmd, debug, packageArg, running, cargoLog, targetDir,
                   wasm_output, scanned, optIdx, optLog, fleetFiles>>
    /\ UNCHANGED runVars /\ UNCHANGED nameVars

(* build(package, debug)?: cargo.spawn() *)
SpawnCargo ==
    /\ cmd = "build" /\ pc = "loop" /\ idx <= Len(packages)
    /\ \E spawned \in BOOLEAN :
          IF spawned
          THEN /\ cargoLog' = Append(cargoLog,
                      [package |-> packages[idx],
                       args |-> BuildArgs(packages[idx], debug),
                       exit |-> -1])
               /\ running' = running \cup {<<"cargo", idx>>}
               /\ pc' = "wait" /\ UNCHANGED outcome
          ELSE /\ Fail("err_spawn_cargo") /\ UNCHANGED <<cargoLog, running>>
    /\ UNCHANGED <<cmd, debug, packageArg, packages, idx, targetDir,
                   wasm_output, scanned, optIdx, optLog, fleetFiles>>
    /\ UNCHANGED runVars /\ UNCHANGED nameVars

(* What a cargo run leaves in its output directory: a run that exits 0     *)
(* creates the directory and may write `<package>.wasm`.                   *)
AfterCargo(dir, package, status, wrote) ==
    LET artifact == [name |-> package \o <<".">> \o WasmExt, kind |-> "file"]
        present == \E i \in 1..Len(dir.entries) : dir.entries[i] = artifact
    IN  IF status # 0 THEN dir
        ELSE [exists |-> TRUE,
              entries |-> IF wrote /\ ~present THEN Append(dir.entries, artifact)
                          ELSE dir.entries]

(* .wait().context(..)?: the child exits; its ExitStatus is dropped *)
WaitCargo ==
    /\ cmd = "build" /\ pc = "wait"
    /\ \E status \in ExitCodes, wrote \in BOOLEAN :
          /\ cargoLog' = [cargoLog EXCEPT ![Len(cargoLog)].exit = status]
          /\ targetDir' = AfterCargo(targetDir, packages[idx], status, wrote)
    /\ running' = WaitChild(running, <<"cargo", idx>>)
    /\ idx' = idx + 1
    /\ pc' = "loop"
    /\ UNCHANGED <<cmd, outcome, debug, packageArg, packages,
                   wasm_output, scanned, optIdx, optLog, fleetFiles>>
    /\ UNCHANGED runVars /\ UNCHANGED nameVars

(* read_dir(cargo_output_base_path(debug)?) .filter(is_wasm_output) and    *)
(* the is_empty branch                                                     *)
ScanOutput ==
    /\ cmd = "build" /\ pc = "loop" /\ idx > Len(packages)
    /\ \E metadataOk \in BOOLEAN :
          IF ~metadataOk
          THEN /\ Fail("err_metadata") /\ UNCHANGED <<wasm_output, scanned, optIdx>>
          ELSE IF ~targetDir.exists
          THEN /\ Fail("err_no_output_dir") /\ UNCHANGED <<wasm_output, scanned, optIdx>>
          ELSE LET found == SelectSeq(targetDir.entries,
                                      LAMBDA e : IsWasmOutput(debug, e))
               IN  /\ wasm_output' = found
                   /\ scanned' = TRUE
                   /\ IF found = <<>>
                      THEN /\ pc' = "done" /\ outcome' = "ok_nothing"
                           /\ UNCHANGED optIdx
                      ELSE /\ pc' = "optimize" /\ optIdx' = 1
                           /\ UNCHANGED outcome
    /\ UNCHANGED <<cmd, debug, packageArg, packages, idx, running, cargoLog,
                   targetDir, optLog, fleetFiles>>
    /\ UNCHANGED runVars /\ UNCHANGED nameVars

(* What OptimizationOptions::run can do with an input: a directory cannot  *)
(* be read as a module; a file is optimized and written, or the run fails  *)
(* before or while writing the output file.                                *)
RunOutcomes(entry) ==
    IF entry.kind = "dir" THEN {"fail_nowrite"}
    ELSE {"ok", "fail_nowrite", "fail_partial"}

(* The fleet-output directory after a wasm-opt run wrote to `name` *)
WriteFleetFile(files, name, result, run) ==
    IF result = "fail_nowrite" THEN files
    ELSE {f \in files : f.name # name} \cup
         {[name |-> name,
           content |-> IF result = "ok" THEN "complete" ELSE "partial",
           run |-> run]}

(* optimize_wasm up to the call of run: size_from_fs(input), file_name,    *)
(* wasm_opt_output_path (which creates the fleet directory when missing)   *)
OptimizeBegin ==
    /\ cmd = "build" /\ pc = "optimize" /\ optIdx <= Len(wasm_output)
    /\ \E dirOk \in BOOLEAN :
          IF dirOk
          THEN LET entry == wasm_output[optIdx]
                   input_path == EntryPath(debug, entry)
                   wasm_file_name == FileName(input_path).val
               IN  /\ optLog' = Append(optLog,
                          [entry |-> entry,
                           input |-> input_path,
                           output |-> WasmOptOutputPath(wasm_file_name),
                           options |-> MakeWasmOpt(debug),
                           debug |-> debug,
                           result |-> "running"])
                   /\ running' = running \cup {<<"wasm-opt", optIdx>>}
                   /\ pc' = "optimizing" /\ UNCHANGED outcome
          ELSE /\ Fail("err_fleet_dir") /\ UNCHANGED <<optLog, running>>
    /\ UNCHANGED <<cmd, debug, packageArg, packages, idx, cargoLog, targetDir,
                   wasm_output, scanned, optIdx, fleetFiles>>
    /\ UNCHANGED runVars /\ UNCHANGED nameVars

(* optimize_wasm from the return of run: `.context(..)?`, then             *)
(* size_from_fs(output)? and extract_fleet_name(input)? for the log line   *)
OptimizeEnd ==
    /\ cmd = "build" /\ pc = "optimizing"
    /\ LET rec == optLog[Len(optLog)]
       IN  \E result \in RunOutcomes(rec.entry) :
              /\ optLog' = [optLog EXCEPT ![Len(optLog)].result = result]
              /\ fleetFiles' = WriteFleetFile(fleetFiles, FileName(rec.output).val,
                                              result, Len(optLog))
              /\ IF result # "ok"
                 THEN Fail("err_optimize") /\ UNCHANGED optIdx
                 ELSE IF ~ExtractFleetName(rec.input).ok
                 THEN Fail("err_fleet_name") /\ UNCHANGED optIdx
                 ELSE /\ optIdx' = optIdx + 1
                      /\ pc' = "optimize" /\ UNCHANGED outcome
    /\ running' = running \ {<<"wasm-opt", optIdx>>}
    /\ UNCHANGED <<cmd, debug, packageArg, packages, idx, cargoLog, targetDir,
                   wasm_output, scanned>>
    /\ UNCHANGED runVars /\ UNCHANGED nameVars

(* the loop over wasm_output is exhausted: "Done optimizing!", Ok(()) *)
OptimizeDone ==
    /\ cmd = "build" /\ pc = "optimize" /\ optIdx > Len(wasm_output)
    /\ pc' = "done" /\ outcome' = "ok_optimized"
    /\ UNCHANGED <<cmd, debug>> /\ UNCHANGED buildVars
    /\ UNCHANGED runVars /\ UNCHANGED nameVars

NextBuild ==
    \/ ResolvePackages
    \/ SpawnCargo
    \/ WaitCargo
    \/ ScanOutput
    \/ OptimizeBegin
    \/ OptimizeEnd
    \/ OptimizeDone

SpecBuild == InitBuild /\ [][NextBuild]_vars

BuildErrors == {"err_metadata", "err_spawn_cargo", "err_no_output_dir",
                "err_fleet_dir", "err_optimize", "err_fleet_name"}

Range(seq) == {seq[i] : i \in 1..Len(seq)}

(* a regular file whose name is a non-empty stem followed by ".wasm" *)
IsWasmFile(entry) ==
    /\ entry.kind = "file"
    /\ Len(entry.name) > 5
    /\ SubSeq(entry.name, Len(entry.name) - 4, Len(entry.name)) = <<".">> \o WasmExt

(* C1: packages are built in the given order, and once the cargo process   *)
(* of a package has exited with a non-zero status no cargo process is      *)
(* spawned for a later package, wasm-opt is invoked on nothing and the     *)
(* command ends in failure.                                                *)
C1_FirstBuildFailureAborts ==
    cmd = "build" =>
        \A i \in 1..Len(cargoLog) :
            /\ cargoLog[i].package = packages[i]
            /\ cargoLog[i].exit \notin {0, -1} =>
                  /\ Len(cargoLog) = i
                  /\ optLog = <<>>
                  /\ pc = "done" => outcome \in BuildErrors

(* C4: when a wasm-opt run failed, then after the Build command has ended  *)
(* the fleet-output directory holds no file of that artifact's name that   *)
(* was written by the failed run.                                          *)
C4_FailedRunLeavesNoFile ==
    (cmd = "build" /\ pc = "done") =>
        \A j \in 1..Len(optLog) :
            optLog[j].result \in {"fail_nowrite", "fail_partial"} =>
                ~\E f \in fleetFiles :
                    f.name = FileName(optLog[j].output).val /\ f.run = j

(* C5: when every cargo run succeeded and the cargo output directory       *)
(* exists but holds no WebAssembly binary, Build ends successfully with    *)
(* the "nothing to optimize" outcome and wasm-opt was never invoked (runs  *)
(* in which the fleet-output directory cannot be created are left aside).  *)
C5_NoBinaryMeansNothingToOptimize ==
    ( /\ cmd = "build" /\ pc = "done"
      /\ Len(cargoLog) = Len(packages)
      /\ \A i \in 1..Len(cargoLog) : cargoLog[i].exit = 0
      /\ scanned
      /\ outcome # "err_fleet_dir"
      /\ \A e \in Range(targetDir.entries) : ~IsWasmFile(e) )
    => (outcome = "ok_nothing" /\ optLog = <<>>)

(* C8: every wasm-opt run of a release build uses the highest optimization *)
(* level, strips DWARF and contains the Asyncify pass; every run of a      *)
(* debug build uses the lowest level and keeps debug info.                 *)
C8_OptimizerProfile ==
    \A j \in 1..Len(optLog) :
        LET o == optLog[j].options
        IN  /\ ~optLog[j].debug =>
                  /\ "Asyncify" \in Range(o.passes)
                  /\ "StripDwarf" \in Range(o.passes)
                  /\ o.optimize_level = 4
            /\ optLog[j].debug =>
                  /\ o.optimize_level = 0
                  /\ o.debug_info
                  /\ "StripDwarf" \notin Range(o.passes)

C8_Witness ==
    /\ cmd = "build" /\ ~debug
    /\ Len(optLog) >= 1
    /\ optLog[1].result = "ok"

(* C9: at most one external process is running at any time of a Build; a   *)
(* package's cargo process runs only after the processes of all earlier    *)
(* packages have exited; the scan and every wasm-opt run happen only after *)
(* every cargo process has exited.                                         *)
C9_OneProcessAtATime ==
    cmd = "build" =>
        /\ Cardinality(running) <= 1
        /\ \A i \in 1..Len(cargoLog) :
              <<"cargo", i>> \in running =>
                  \A j \in 1..(i - 1) :
                      cargoLog[j].exit # -1 /\ <<"cargo", j>> \notin running
        /\ (scanned \/ optLog # <<>>) =>
              \A i \in 1..Len(cargoLog) :
                  cargoLog[i].exit # -1 /\ <<"cargo", i>> \notin running

C9_Witness ==
    /\ cmd = "build"
    /\ Len(cargoLog) = 2
    /\ running = {<<"cargo", 2>>}
    /\ cargoLog[1].exit # -1

(* C10: the entries handed to wasm-opt are exactly the regular files of    *)
(* the cargo output directory with the wasm extension: never a directory,  *)
(* a file with another extension or an extensionless file.                 *)
C10_OnlyWasmFilesOptimized ==
    cmd = "build" =>
        /\ \A j \in 1..Len(optLog) : IsWasmFile(optLog[j].entry)
        /\ outcome = "ok_optimized" =>
              {optLog[j].entry : j \in 1..Len(optLog)} =
                  {e \in Range(targetDir.entries) : IsWasmFile(e)}

----------------------------------------------------------------------------
(* The Run command *)

(* Inputs: names found in ./target/protologic_fleets, the clock, the       *)
(* working directory.                                                      *)
FleetFilePool ==
    { <<"a",".","w","a","s","m">>,
      <<"b",".","w","a","s","m">>,
      <<"a",".","b",".","w","a","s","m">>,
      <<"c">>,
      <<".",".","w","a","s","m">> }
Times == {0, 7, 1000}
CurrentDirs == { <<"/","w">>, <<"/","w",".","d">> }

Listings ==
    {l \in SeqsUpTo(FleetFilePool, MaxFleets) :
        \A i, j \in 1..Len(l) : i # j => l[i] # l[j]}

DigitChars == <<"0","1","2","3","4","5","6","7","8","9">>

(* Display of a u64: its decimal digits *)
RECURSIVE ToDecimal(_)
ToDecimal(n) ==
    IF n < 10 THEN <<DigitChars[n + 1]>>
    ELSE ToDecimal(n \div 10) \o <<DigitChars[(n % 10) + 1]>>

JsonDeflate == <<"j","s","o","n",".","d","e","f","l","a","t","e">>

(* DirEntry::path() of an entry of the fleet-output directory *)
FleetPath(name) == Join(FleetOutputBasePath, name)

(* battle_output_path, with `now` and `current_dir` already obtained *)
BattleOutputPath(t, dir, fleet1, fleet2) ==
    LET fleet1_name == ExtractFleetName(FleetPath(fleet1))
        fleet2_name == ExtractFleetName(FleetPath(fleet2))
    IN  IF ~fleet1_name.ok \/ ~fleet2_name.ok THEN Err("fleet name")
        ELSE Ok(Join(dir, ToDecimal(t) \o <<"_">> \o fleet1_name.val
                              \o <<"_">> \o fleet2_name.val))

(* fleets.first_chunk::<2>(): the first two elements, when there are two *)
FirstChunk2(v) == IF Len(v) >= 2 THEN Some(SubSeq(v, 1, 2)) ELSE NoneV

InitRun ==
    /\ cmd = "run" /\ pc = "find" /\ outcome = "none"
    /\ debug \in BOOLEAN
    /\ player \in BOOLEAN
    /\ fleets \in Listings
    /\ now \in Times
    /\ cwd \in CurrentDirs
    /\ battle_output = NoneV /\ simLog = <<>> /\ playerLog = <<>>
    /\ IdleBuild /\ IdleName

(* find_built_fleets()?, first_chunk().context(..)?, battle_output_path()? *)
FindFleets ==
    /\ cmd = "run" /\ pc = "find"
    /\ \E listed \in BOOLEAN, cwdOk \in BOOLEAN :
          IF ~listed THEN Fail("err_list_fleets") /\ UNCHANGED battle_output
          ELSE LET pair == FirstChunk2(fleets)
               IN  IF ~pair.some
                   THEN Fail("err_fleet_count") /\ UNCHANGED battle_output
                   ELSE LET out == BattleOutputPath(now, cwd, pair.val[1], pair.val[2])
                        IN  IF ~out.ok
                            THEN Fail("err_fleet_name") /\ UNCHANGED battle_output
                            ELSE IF ~cwdOk
                            THEN Fail("err_current_dir") /\ UNCHANGED battle_output
                            ELSE /\ battle_output' = Some(out.val)
                                 /\ pc' = "spawn_sim" /\ UNCHANGED outcome
    /\ UNCHANGED <<cmd, debug, fleets, player, now, cwd, simLog, playerLog>>
    /\ UNCHANGED buildVars /\ UNCHANGED nameVars

(* Command::new(protologic_sim_path(..)) ... .spawn().context(..)? *)
SpawnSim ==
    /\ cmd = "run" /\ pc = "spawn_sim"
    /\ \E spawned \in BOOLEAN :
          IF spawned
          THEN /\ simLog' = Append(simLog,
                      [fleets |-> <<FleetPath(fleets[1]), FleetPath(fleets[2])>>,
                       debug |-> debug,
                       output |-> battle_output.val,
                       exit |-> -1])
               /\ pc' = "wait_sim" /\ UNCHANGED outcome
          ELSE Fail("err_spawn_sim") /\ UNCHANGED simLog
    /\ UNCHANGED <<cmd, debug, fleets, player, now, cwd, battle_output, playerLog>>
    /\ UNCHANGED buildVars /\ UNCHANGED nameVars

(* .wait().context(..)?: the simulator exits; its ExitStatus is dropped;   *)
(* then `if player`                                                        *)
WaitSim ==
    /\ cmd = "run" /\ pc = "wait_sim"
    /\ \E status \in ExitCodes :
          simLog' = [simLog EXCEPT ![Len(simLog)].exit = status]
    /\ IF player THEN pc' = "spawn_player" /\ UNCHANGED outcome
       ELSE pc' = "done" /\ outcome' = "ok"
    /\ UNCHANGED <<cmd, debug, fleets, player, now, cwd, battle_output, playerLog>>
    /\ UNCHANGED buildVars /\ UNCHANGED nameVars

(* the player command: battle_output.with_extension("json.deflate"),       *)
(* spawned and not waited for                                              *)
SpawnPlayer ==
    /\ cmd = "run" /\ pc = "spawn_player"
    /\ \E spawned \in BOOLEAN :
          IF spawned
          THEN /\ playerLog' = Append(playerLog,
                      [arg |-> WithExtension(battle_output.val, JsonDeflate)])
               /\ pc' = "done" /\ outcome' = "ok"
          ELSE Fail("err_spawn_player") /\ UNCHANGED playerLog
    /\ UNCHANGED <<cmd, debug, fleets, player, now, cwd, battle_output, simLog>>
    /\ UNCHANGED buildVars /\ UNCHANGED nameVars

NextRun ==
    \/ FindFleets
    \/ SpawnSim
    \/ WaitSim
    \/ SpawnPlayer

SpecRun == InitRun /\ [][NextRun]_vars

RunErrors == {"err_list_fleets", "err_fleet_count", "err_fleet_name",
              "err_current_dir", "err_spawn_sim", "err_spawn_player"}

(* C2: with any number of entries other than two in the fleet-output       *)
(* directory Run fails and never spawns the simulator (the failure being   *)
(* the count error whenever the pair is what main rejects); the simulator  *)
(* is spawned only with exactly two entries.                               *)
C2_ExactlyTwoFleets ==
    cmd = "run" =>
        /\ Len(fleets) # 2 =>
              /\ simLog = <<>>
              /\ pc = "done" => outcome \in RunErrors
              /\ (pc = "done" /\ Len(fleets) < 2) =>
                    outcome \in {"err_fleet_count", "err_list_fleets"}
        /\ simLog # <<>> => Len(fleets) = 2

(* C3: the simulator is spawned at most once per Run, and when it exits    *)
(* with a non-zero status the command ends in failure and the player is    *)
(* not launched.                                                           *)
C3_SimulatorFailureIsFatal ==
    cmd = "run" =>
        /\ Len(simLog) <= 1
        /\ \A i \in 1..Len(simLog) :
              simLog[i].exit \notin {0, -1} =>
                  /\ playerLog = <<>>
                  /\ pc = "done" => outcome \in RunErrors

(* C6: with extracted names n1, n2 (listing order) and time t the          *)
(* simulator's output path has the final component t_n1_n2, and the player *)
(* is launched on the path whose final component is t_n1_n2.json.deflate.  *)
C6_BattleOutputNaming ==
    (cmd = "run" /\ simLog # <<>>) =>
        LET n1 == ExtractFleetName(FleetPath(fleets[1])).val
            n2 == ExtractFleetName(FleetPath(fleets[2])).val
            expected == ToDecimal(now) \o <<"_">> \o n1 \o <<"_">> \o n2
        IN  /\ \A i \in 1..Len(simLog) :
                  FileName(simLog[i].output) = Some(expected)
            /\ \A i \in 1..Len(playerLog) :
                  FileName(playerLog[i].arg) = Some(expected \o <<".">> \o JsonDeflate)

====
